---- MODULE Spec2Model ----
(***************************************************************************)
(* Overlay Manager API (src/main.py): an in-memory list of overlays and a  *)
(* next-id counter behind five HTTP handlers.                              *)
(*                                                                         *)
(* Conventions of the model                                                *)
(*  - Floats (x, y, w, h, opacity) are fixed-point numbers in tenths:      *)
(*    10.0 is 100, 100 is 1000, opacity 1.0 is 10, opacity 1.5 is 15.      *)
(*  - Optional[T] is a sequence of length at most one: <<>> is None,       *)
(*    <<v>> is the value v.  A JSON body is a function from the keys the   *)
(*    caller wrote to such optional values, so that a key that is absent,  *)
(*    a key that is null and a key with a value are three different        *)
(*    inputs.                                                              *)
(*  - Spec is the externally serialized service (each handler runs to      *)
(*    completion); SpecThreads runs the handlers of create, update and     *)
(*    delete in worker threads that interleave between statements.         *)
(***************************************************************************)
EXTENDS Integers, Sequences, FiniteSets, TLC

VARIABLES
    _overlays,   \* main.py:59  the collection, a list of Overlay
    _next_id,    \* main.py:60  the identifier counter
    request,     \* the request served last: [op, id]
    response,    \* its response: [status, body]
    assigned,    \* history: ids handed out by create_overlay, in order
    deleted,     \* history: ids delete_overlay was asked to remove or did remove
    live,        \* history: id -> overlay last returned for it by create/update
    pc,          \* SpecThreads: per thread, the statement it is about to run
    local        \* SpecThreads: per thread, the handler's local variables

vars == <<_overlays, _next_id, request, response, assigned, deleted, live, pc, local>>

store == <<_overlays, _next_id>>

(***************************************************************************)
(* Bounds of the model.                                                    *)
(***************************************************************************)
MaxId == 3          \* create_overlay is explored while _next_id <= MaxId
NumThreads == 2     \* worker threads of SpecThreads

(***************************************************************************)
(* Optional values and the field list.                                     *)
(***************************************************************************)
None == <<>>

Some(v) == <<v>>

FieldNames == {"name", "type", "x", "y", "w", "h", "opacity", "color", "content", "visible"}

(* constr(min_length, max_length); max_length = -1 stands for no maximum *)
constr(v, min_length, max_length) ==
    /\ Len(v) >= min_length
    /\ (max_length = -1 \/ Len(v) <= max_length)

(* variant: the upper bound le is not declared *)
confloat_noUpper(v, ge, le) == v >= ge

(* confloat(ge, le), in tenths *)
confloat(v, ge, le) == v >= ge /\ v <= le

(* name, type: required, not null, constrained *)
RequiredStr(body, f, min_length, max_length) ==
    /\ f \in DOMAIN body
    /\ body[f] # None
    /\ constr(body[f][1], min_length, max_length)

(* a field with a non-None default and a non-Optional type: absent is fine,
   null is an error, a value must satisfy the constraint *)
DefaultedFloat(body, f, ge, le) ==
    f \in DOMAIN body => (body[f] # None /\ confloat(body[f][1], ge, le))

DefaultedStr(body, f, min_length, max_length) ==
    f \in DOMAIN body => (body[f] # None /\ constr(body[f][1], min_length, max_length))

DefaultedBool(body, f) ==
    f \in DOMAIN body => (body[f] # None /\ body[f][1] \in BOOLEAN)

(* Optional[...] = None: absent and null are both fine *)
OptionalFloat(body, f, ge, le) ==
    (f \in DOMAIN body /\ body[f] # None) => confloat(body[f][1], ge, le)

OptionalStr(body, f, min_length, max_length) ==
    (f \in DOMAIN body /\ body[f] # None) => constr(body[f][1], min_length, max_length)

OptionalBool(body, f) ==
    (f \in DOMAIN body /\ body[f] # None) => body[f][1] \in BOOLEAN

(***************************************************************************)
(* class Overlay: validation of a complete record (content is optional).   *)
(***************************************************************************)
OverlayValid(o) ==
    /\ o.id \in Int
    /\ constr(o.name, 1, 100)
    /\ constr(o.type, 1, -1)
    /\ confloat(o.x, 0, 1000)
    /\ confloat(o.y, 0, 1000)
    /\ confloat(o.w, 0, 1000)
    /\ confloat(o.h, 0, 1000)
    /\ confloat(o.opacity, 0, 10)
    /\ constr(o.color, 1, -1)
    /\ Len(o.content) <= 1
    /\ o.visible \in BOOLEAN

(***************************************************************************)
(* class OverlayCreate: validation of a request body, and payload.dict().  *)
(***************************************************************************)
OverlayCreateValid(body) ==
    /\ RequiredStr(body, "name", 1, 100)
    /\ RequiredStr(body, "type", 1, -1)
    /\ DefaultedFloat(body, "x", 0, 1000)
    /\ DefaultedFloat(body, "y", 0, 1000)
    /\ DefaultedFloat(body, "w", 0, 1000)
    /\ DefaultedFloat(body, "h", 0, 1000)
    /\ DefaultedFloat(body, "opacity", 0, 10)
    /\ DefaultedStr(body, "color", 1, -1)
    /\ DefaultedBool(body, "visible")

OverlayCreateDefaults ==
    [x |-> 100, y |-> 100, w |-> 200, h |-> 100, opacity |-> 10,
     color |-> "#ff0000", content |-> None, visible |-> TRUE]

(* variant: content is left out when the payload is turned into a dict *)
OverlayCreateDict_noContent(body) ==
    [f \in FieldNames |->
        IF f = "content"
        THEN None
        ELSE (IF f \in DOMAIN body THEN body[f][1] ELSE OverlayCreateDefaults[f])]

OverlayCreateDict(body) ==
    [f \in FieldNames |->
        IF f = "content"
        THEN (IF f \in DOMAIN body THEN body[f] ELSE OverlayCreateDefaults[f])
        ELSE (IF f \in DOMAIN body THEN body[f][1] ELSE OverlayCreateDefaults[f])]

(***************************************************************************)
(* class OverlayUpdate: validation of a request body, and payload.dict():  *)
(* every field is Optional with default None, so an absent key and a null  *)
(* key both come out as None.                                              *)
(***************************************************************************)
OverlayUpdateValid(body) ==
    /\ OptionalStr(body, "name", 1, 100)
    /\ OptionalStr(body, "type", 1, -1)
    /\ OptionalFloat(body, "x", 0, 1000)
    /\ OptionalFloat(body, "y", 0, 1000)
    /\ OptionalFloat(body, "w", 0, 1000)
    /\ OptionalFloat(body, "h", 0, 1000)
    /\ OptionalFloat(body, "opacity", 0, 10)
    /\ OptionalStr(body, "color", 1, -1)
    /\ OptionalBool(body, "visible")

OverlayUpdateDict(body) ==
    [f \in FieldNames |-> IF f \in DOMAIN body THEN body[f] ELSE None]

(* Overlay(id=_next_id, **payload.dict()) *)
MkOverlay(id, d) ==
    [id |-> id, name |-> d["name"], type |-> d["type"], x |-> d["x"], y |-> d["y"],
     w |-> d["w"], h |-> d["h"], opacity |-> d["opacity"], color |-> d["color"],
     content |-> d["content"], visible |-> d["visible"]]

(* updates = {k: v for k, v in payload.dict().items() if v is not None} *)
UpdateKeys(pdict) == {k \in FieldNames : pdict[k] # None}

(* variant: the candidate starts from the defaults instead of ov.dict() *)
MergeUpdate_fromDefaults(ov, pdict) ==
    LET updates == UpdateKeys(pdict) IN
    [k \in DOMAIN ov |->
        IF k \in updates
        THEN (IF k = "content" THEN pdict[k] ELSE pdict[k][1])
        ELSE (IF k \in DOMAIN OverlayCreateDefaults THEN OverlayCreateDefaults[k] ELSE ov[k])]

(* data = ov.dict(); data.update(updates) *)
MergeUpdate(ov, pdict) ==
    LET updates == UpdateKeys(pdict) IN
    [k \in DOMAIN ov |->
        IF k \in updates
        THEN (IF k = "content" THEN pdict[k] ELSE pdict[k][1])
        ELSE ov[k]]

(* variant: idx is read after the loop, so a miss lands on the last element *)
IndexOf_lastOnMiss(list, overlay_id) ==
    IF \E i \in 1..Len(list) : list[i].id = overlay_id
    THEN CHOOSE i \in 1..Len(list) :
            /\ list[i].id = overlay_id
            /\ \A j \in 1..(i - 1) : list[j].id # overlay_id
    ELSE Len(list)

(* for idx, ov in enumerate(_overlays): if ov.id == overlay_id   (1-based; 0 = no match) *)
IndexOf(list, overlay_id) ==
    IF \E i \in 1..Len(list) : list[i].id = overlay_id
    THEN CHOOSE i \in 1..Len(list) :
            /\ list[i].id = overlay_id
            /\ \A j \in 1..(i - 1) : list[j].id # overlay_id
    ELSE 0

(* variant: del list[idx:] *)
Pop_truncate(list, idx) == SubSeq(list, 1, idx - 1)

(* list.pop(idx) *)
Pop(list, idx) ==
    [i \in 1..(Len(list) - 1) |-> IF i < idx THEN list[i] ELSE list[i + 1]]

(* variant: the increment is missing *)
IncNextId_missing(n) == n

(* _next_id += 1 *)
IncNextId(n) == n + 1

(* variant: hidden overlays are filtered out *)
ListResult_visibleOnly(list) == SelectSeq(list, LAMBDA o : o.visible)

(* list_overlays: return _overlays *)
ListResult(list) == list

(* get_overlay as a function of the collection *)
GetResult(list, overlay_id) ==
    IF IndexOf(list, overlay_id) = 0
    THEN [status |-> 404, body |-> None]
    ELSE [status |-> 200, body |-> Some(list[IndexOf(list, overlay_id)])]

(***************************************************************************)
(* Request inputs.                                                         *)
(***************************************************************************)
S10 == "0123456789"

Name100 == S10 \o S10 \o S10 \o S10 \o S10 \o S10 \o S10 \o S10 \o S10 \o S10

Name101 == Name100 \o "x"

CreateLogo ==
    ("name" :> Some("Logo")) @@ ("type" :> Some("image")) @@ ("opacity" :> Some(5))
    @@ ("color" :> Some("#00ff00")) @@ ("visible" :> Some(FALSE))

CreateLowerThird ==
    ("name" :> Some("Lower Third")) @@ ("type" :> Some("text")) @@ ("x" :> Some(0))
    @@ ("y" :> Some(800)) @@ ("w" :> Some(1000)) @@ ("h" :> Some(200))
    @@ ("content" :> Some("Breaking News"))

(* body with key f set to v (replacing any value it had) *)
With(body, f, v) == (f :> v) @@ body

Without(body, f) == [k \in (DOMAIN body) \ {f} |-> body[k]]

BadValues ==
    { <<"name", Some("")>>, <<"name", Some(Name101)>>,
      <<"type", Some("")>>,
      <<"x", Some(-1)>>, <<"x", Some(1001)>>,
      <<"y", Some(1001)>>, <<"w", Some(-1)>>, <<"h", Some(1001)>>,
      <<"opacity", Some(-1)>>, <<"opacity", Some(15)>>,
      <<"color", Some("")>> }

ValidCreateBodies == {CreateLogo, CreateLowerThird}

InvalidCreateBodies ==
    {With(CreateLogo, bv[1], bv[2]) : bv \in BadValues}
    \cup {Without(CreateLogo, "name"), Without(CreateLowerThird, "type"),
          With(CreateLogo, "name", None), With(CreateLogo, "x", None),
          With(CreateLogo, "visible", None)}

CreateBodies == ValidCreateBodies \cup InvalidCreateBodies

EmptyBody == <<>>

ValidUpdateBodies ==
    { EmptyBody,
      "x" :> Some(0),
      "visible" :> Some(FALSE),
      "content" :> None,
      ("x" :> Some(0)) @@ ("visible" :> Some(FALSE)),
      ("x" :> None) @@ ("visible" :> Some(FALSE)) @@ ("content" :> None) }

InvalidUpdateBodies ==
    {(bv[1] :> bv[2]) : bv \in BadValues}
    \cup {("x" :> Some(50)) @@ ("opacity" :> Some(15))}

UpdateBodies == ValidUpdateBodies \cup InvalidUpdateBodies

TargetIds == 1..(MaxId + 1)

Threads == 1..NumThreads

NoLocal == [id |-> 0, idx |-> 0, overlay |-> None]

(***************************************************************************)
(* Initial state: main.py:59-60.                                           *)
(***************************************************************************)
Init ==
    /\ _overlays = <<>>
    /\ _next_id = 1
    /\ request = [op |-> "none", id |-> 0]
    /\ response = [status |-> 0, body |-> None]
    /\ assigned = <<>>
    /\ deleted = {}
    /\ live = <<>>
    /\ pc = [t \in Threads |-> "idle"]
    /\ local = [t \in Threads |-> NoLocal]

(***************************************************************************)
(* The handlers, each run to completion (Spec).  The body of a request is  *)
(* validated against the handler's payload class before the handler runs   *)
(* (422); the handler's own Overlay(...) construction failing is a 500.    *)
(***************************************************************************)
list_overlays ==
    /\ request' = [op |-> "list", id |-> 0]
    /\ response' = [status |-> 200, body |-> ListResult(_overlays)]
    /\ UNCHANGED <<_overlays, _next_id, assigned, deleted, live, pc, local>>

create_overlay(body) ==
    /\ OverlayCreateValid(body) => _next_id <= MaxId
    /\ request' = [op |-> "create", id |-> 0]
    /\ IF ~OverlayCreateValid(body)
       THEN /\ response' = [status |-> 422, body |-> None]
            /\ UNCHANGED <<_overlays, _next_id, assigned, live>>
       ELSE LET overlay == MkOverlay(_next_id, OverlayCreateDict(body)) IN
            IF ~OverlayValid(overlay)
            THEN /\ response' = [status |-> 500, body |-> None]
                 /\ UNCHANGED <<_overlays, _next_id, assigned, live>>
            ELSE /\ _next_id' = IncNextId(_next_id)
                 /\ _overlays' = Append(_overlays, overlay)
                 /\ response' = [status |-> 201, body |-> Some(overlay)]
                 /\ assigned' = Append(assigned, overlay.id)
                 /\ live' = (overlay.id :> overlay) @@ live
    /\ UNCHANGED <<deleted, pc, local>>

get_overlay(overlay_id) ==
    /\ request' = [op |-> "get", id |-> overlay_id]
    /\ response' = GetResult(_overlays, overlay_id)
    /\ UNCHANGED <<_overlays, _next_id, assigned, deleted, live, pc, local>>

update_overlay(overlay_id, body) ==
    /\ request' = [op |-> "update", id |-> overlay_id]
    /\ IF ~OverlayUpdateValid(body)
       THEN /\ response' = [status |-> 422, body |-> None]
            /\ UNCHANGED <<_overlays, live>>
       ELSE LET idx == IndexOf(_overlays, overlay_id) IN
            IF idx = 0
            THEN /\ response' = [status |-> 404, body |-> None]
                 /\ UNCHANGED <<_overlays, live>>
            ELSE LET updated == MergeUpdate(_overlays[idx], OverlayUpdateDict(body)) IN
                 IF ~OverlayValid(updated)
                 THEN /\ response' = [status |-> 500, body |-> None]
                      /\ UNCHANGED <<_overlays, live>>
                 ELSE /\ _overlays' = [_overlays EXCEPT ![idx] = updated]
                      /\ response' = [status |-> 200, body |-> Some(updated)]
                      /\ live' = (overlay_id :> updated) @@ live
    /\ UNCHANGED <<_next_id, assigned, deleted, pc, local>>

delete_overlay(overlay_id) ==
    /\ request' = [op |-> "delete", id |-> overlay_id]
    /\ LET idx == IndexOf(_overlays, overlay_id) IN
       IF idx = 0
       THEN /\ response' = [status |-> 404, body |-> None]
            /\ UNCHANGED <<_overlays, deleted, live>>
       ELSE /\ _overlays' = Pop(_overlays, idx)
            /\ response' = [status |-> 204, body |-> None]
            /\ deleted' = deleted \cup {overlay_id}
            /\ live' = [k \in (DOMAIN live) \ {overlay_id} |-> live[k]]
    /\ UNCHANGED <<_next_id, assigned, pc, local>>

Next ==
    \/ list_overlays
    \/ \E body \in CreateBodies : create_overlay(body)
    \/ \E overlay_id \in TargetIds : get_overlay(overlay_id)
    \/ \E overlay_id \in TargetIds, body \in UpdateBodies : update_overlay(overlay_id, body)
    \/ \E overlay_id \in TargetIds : delete_overlay(overlay_id)

Spec == Init /\ [][Next]_vars

(***************************************************************************)
(* The handlers run by worker threads (SpecThreads).  FastAPI runs a plain *)
(* def handler in a thread pool and main.py takes no lock, so a thread can *)
(* be preempted between two statements.  A step below is one statement, or *)
(* a run of statements that touch only the handler's locals.               *)
(***************************************************************************)
ThreadCreateBody == CreateLogo

ThreadUpdateBody == "x" :> Some(0)

(* main.py:81  overlay = Overlay(id=_next_id, **payload.dict()) *)
create_overlay_81(t) ==
    /\ pc[t] = "idle"
    /\ _next_id <= MaxId
    /\ local' = [local EXCEPT ![t] =
                    [id |-> 0, idx |-> 0,
                     overlay |-> Some(MkOverlay(_next_id, OverlayCreateDict(ThreadCreateBody)))]]
    /\ pc' = [pc EXCEPT ![t] = "create_82"]
    /\ UNCHANGED <<_overlays, _next_id, request, response, assigned, deleted, live>>

(* main.py:82  _next_id += 1 *)
create_overlay_82(t) ==
    /\ pc[t] = "create_82"
    /\ _next_id' = IncNextId(_next_id)
    /\ pc' = [pc EXCEPT ![t] = "create_83"]
    /\ UNCHANGED <<_overlays, request, response, assigned, deleted, live, local>>

(* main.py:83-84  _overlays.append(overlay); return overlay *)
create_overlay_83(t) ==
    /\ pc[t] = "create_83"
    /\ _overlays' = Append(_overlays, local[t].overlay[1])
    /\ assigned' = Append(assigned, local[t].overlay[1].id)
    /\ pc' = [pc EXCEPT ![t] = "idle"]
    /\ local' = [local EXCEPT ![t] = NoLocal]
    /\ UNCHANGED <<_next_id, request, response, deleted, live>>

(* main.py:97-102  find idx, build the validated candidate from ov *)
update_overlay_97(t, overlay_id) ==
    /\ pc[t] = "idle"
    /\ LET idx == IndexOf(_overlays, overlay_id) IN
       IF idx = 0
       THEN UNCHANGED <<pc, local>>
       ELSE /\ local' = [local EXCEPT ![t] =
                    [id |-> overlay_id, idx |-> idx,
                     overlay |-> Some(MergeUpdate(_overlays[idx],
                                                  OverlayUpdateDict(ThreadUpdateBody)))]]
            /\ pc' = [pc EXCEPT ![t] = "update_103"]
    /\ UNCHANGED <<_overlays, _next_id, request, response, assigned, deleted, live>>

(* main.py:103-104  _overlays[idx] = updated  (IndexError when idx is past the end) *)
update_overlay_103(t) ==
    /\ pc[t] = "update_103"
    /\ IF local[t].idx <= Len(_overlays)
       THEN _overlays' = [_overlays EXCEPT ![local[t].idx] = local[t].overlay[1]]
       ELSE UNCHANGED _overlays
    /\ pc' = [pc EXCEPT ![t] = "idle"]
    /\ local' = [local EXCEPT ![t] = NoLocal]
    /\ UNCHANGED <<_next_id, request, response, assigned, deleted, live>>

(* main.py:111-112  find idx *)
delete_overlay_111(t, overlay_id) ==
    /\ pc[t] = "idle"
    /\ LET idx == IndexOf(_overlays, overlay_id) IN
       IF idx = 0
       THEN UNCHANGED <<pc, local>>
       ELSE /\ local' = [local EXCEPT ![t] = [id |-> overlay_id, idx |-> idx, overlay |-> None]]
            /\ pc' = [pc EXCEPT ![t] = "delete_113"]
    /\ UNCHANGED <<_overlays, _next_id, request, response, assigned, deleted, live>>

(* main.py:113-114  _overlays.pop(idx)  (IndexError when idx is past the end) *)
delete_overlay_113(t) ==
    /\ pc[t] = "delete_113"
    /\ IF local[t].idx <= Len(_overlays)
       THEN /\ _overlays' = Pop(_overlays, local[t].idx)
            /\ deleted' = deleted \cup {local[t].id, _overlays[local[t].idx].id}
       ELSE UNCHANGED <<_overlays, deleted>>
    /\ pc' = [pc EXCEPT ![t] = "idle"]
    /\ local' = [local EXCEPT ![t] = NoLocal]
    /\ UNCHANGED <<_next_id, request, response, assigned, live>>

NextThreads ==
    \E t \in Threads :
        \/ create_overlay_81(t)
        \/ create_overlay_82(t)
        \/ create_overlay_83(t)
        \/ \E overlay_id \in TargetIds : update_overlay_97(t, overlay_id)
        \/ update_overlay_103(t)
        \/ \E overlay_id \in TargetIds : delete_overlay_111(t, overlay_id)
        \/ delete_overlay_113(t)

SpecThreads == Init /\ [][NextThreads]_vars

(***************************************************************************)
(* Vocabulary of the properties (spec.md section 3, in tenths).            *)
(***************************************************************************)
Ids(list) == {list[i].id : i \in 1..Len(list)}

NoDupIds(list) == \A i, j \in 1..Len(list) : i # j => list[i].id # list[j].id

NoRepeat(seq) == \A i, j \in 1..Len(seq) : i # j => seq[i] # seq[j]

PositionOf(list, id) == CHOOSE i \in 1..Len(list) : list[i].id = id

TableFieldOk(f, v) ==
    CASE f = "name" -> Len(v) >= 1 /\ Len(v) <= 100
      [] f \in {"type", "color"} -> Len(v) >= 1
      [] f \in {"x", "y", "w", "h"} -> 0 <= v /\ v <= 1000
      [] f = "opacity" -> 0 <= v /\ v <= 10
      [] OTHER -> TRUE

TableDefaults ==
    [x |-> 100, y |-> 100, w |-> 200, h |-> 100, opacity |-> 10,
     color |-> "#ff0000", content |-> None, visible |-> TRUE]

MalformedCreate(body) ==
    \/ {"name", "type"} \ (DOMAIN body) # {}
    \/ \E f \in (DOMAIN body) \ {"content"} : body[f] = None
    \/ \E f \in DOMAIN body : body[f] # None /\ ~TableFieldOk(f, body[f][1])

MalformedUpdate(body) ==
    \E f \in DOMAIN body : body[f] # None /\ ~TableFieldOk(f, body[f][1])

MalformedCreateBodies == {body \in CreateBodies : MalformedCreate(body)}

MalformedUpdateBodies == {body \in UpdateBodies : MalformedUpdate(body)}

Supplied(body, f) == IF f = "content" THEN body[f] ELSE body[f][1]

Ascending(S) ==
    [i \in 1..Cardinality(S) |-> CHOOSE v \in S : Cardinality({u \in S : u < v}) = i - 1]

LiveInOrder == [i \in 1..Cardinality(DOMAIN live) |-> live[Ascending(DOMAIN live)[i]]]

(***************************************************************************)
(* C1: under serialized requests the ids handed out by successive          *)
(* successful creates are 1, 2, 3, ... (one more per call, never handed    *)
(* out twice, deletions notwithstanding), and no two overlays of the       *)
(* collection share an id.                                                 *)
(***************************************************************************)
C1_IdsSequentialAndUnique ==
    /\ assigned = [i \in 1..Len(assigned) |-> i]
    /\ _next_id = Len(assigned) + 1
    /\ NoDupIds(_overlays)
    /\ Ids(_overlays) \cap deleted = {}

C1_Witness ==
    /\ request.op = "create"
    /\ response.status = 201
    /\ response.body[1].id = 3
    /\ deleted # {}

(***************************************************************************)
(* C2: an update that supplies content = null sets the stored content to   *)
(* none, and an update that omits content leaves it as it was.             *)
(***************************************************************************)
C2_NullContentClears ==
    [][(request'.op = "update" /\ response'.status = 200) =>
        \A body \in UpdateBodies :
            update_overlay(request'.id, body) =>
            LET i == PositionOf(_overlays, request'.id) IN
            /\ ("content" \in DOMAIN body /\ body["content"] = None)
                    => _overlays'[i].content = None
            /\ ("content" \notin DOMAIN body)
                    => _overlays'[i].content = _overlays[i].content]_vars

(***************************************************************************)
(* C3: a successful update changes only the supplied fields of its target: *)
(* the unsupplied fields and the id keep their values, the target keeps    *)
(* its position, the length, the other overlays and the counter are        *)
(* unchanged.                                                              *)
(***************************************************************************)
C3_UpdateFrame ==
    [][(request'.op = "update" /\ response'.status = 200) =>
        \A body \in UpdateBodies :
            update_overlay(request'.id, body) =>
            LET i == PositionOf(_overlays, request'.id) IN
            /\ Len(_overlays') = Len(_overlays)
            /\ _next_id' = _next_id
            /\ \A j \in 1..Len(_overlays) : j # i => _overlays'[j] = _overlays[j]
            /\ _overlays'[i].id = request'.id
            /\ \A f \in FieldNames \ (DOMAIN body) : _overlays'[i][f] = _overlays[i][f]
            /\ response'.body = Some(_overlays'[i])]_vars

C3_Witness ==
    /\ request.op = "update"
    /\ response.status = 200
    /\ Len(_overlays) >= 2
    /\ _overlays[1].id = request.id
    /\ _overlays[1].visible = FALSE
    /\ _overlays[1].y = 800
    /\ _overlays[1].content = Some("Breaking News")

C6_CreateGetRoundTrip ==
    [][(request'.op = "create" /\ response'.status = 201) =>
        \A body \in ValidCreateBodies :
            create_overlay(body) =>
            LET o == response'.body[1] IN
            /\ GetResult(_overlays', o.id) = [status |-> 200, body |-> Some(o)]
            /\ \A f \in FieldNames :
                    o[f] = IF f \in DOMAIN body THEN Supplied(body, f) ELSE TableDefaults[f]]_vars

C6_Witness ==
    /\ request.op = "create"
    /\ response.status = 201
    /\ Len(_overlays) = 3
    /\ response.body[1].content = Some("Breaking News")
    /\ response.body[1].opacity = 10
    /\ GetResult(_overlays, response.body[1].id).status = 200

(***************************************************************************)
(* C7: every overlay of the collection satisfies every field constraint,   *)
(* in every reachable state.                                               *)
(***************************************************************************)
C7_StoredOverlaysValid ==
    \A i \in 1..Len(_overlays) :
        /\ \A f \in FieldNames \ {"content", "visible"} : TableFieldOk(f, _overlays[i][f])
        /\ _overlays[i].visible \in BOOLEAN
        /\ Len(_overlays[i].content) <= 1

C7_Witness ==
    /\ request.op = "create"
    /\ response.status = 422
    /\ Len(_overlays) = 3
    /\ \E i \in 1..Len(_overlays) : _overlays[i].name = "Logo" /\ _overlays[i].x = 0

(***************************************************************************)
(* C8: list answers with exactly the overlays created and not deleted      *)
(* since, each once, each as last returned by its create or its latest     *)
(* successful update, in ascending id order, and changes neither the       *)
(* collection nor the counter.                                             *)
(***************************************************************************)
C8_ListReflectsState ==
    [][request'.op = "list" =>
        /\ response'.status = 200
        /\ response'.body = LiveInOrder
        /\ Ids(response'.body) = {assigned[i] : i \in 1..Len(assigned)} \ deleted
        /\ Len(response'.body) = Len(assigned) - Cardinality(deleted)
        /\ store' = store]_vars

C8_Witness ==
    /\ request.op = "list"
    /\ Len(response.body) = 2
    /\ deleted # {}
    /\ \E i \in 1..Len(response.body) :
            response.body[i].name = "Logo" /\ response.body[i].x = 0

(***************************************************************************)
(* C9: with creates interleaving between statements, no two created        *)
(* overlays receive the same id and the counter advances by one per        *)
(* create.                                                                 *)
(***************************************************************************)
C9_ConcurrentCreatesDistinctIds ==
    /\ NoRepeat(assigned)
    /\ _next_id = 1 + Len(assigned) + Cardinality({t \in Threads : pc[t] = "create_83"})

(***************************************************************************)
(* C10: an update that interleaves with deletes of other overlays only     *)
(* (its target was never deleted and is in the collection when it writes;  *)
(* ids are distinct so far) changes only its target: no other overlay is   *)
(* overwritten or dropped and no two overlays end up with the same id.     *)
(***************************************************************************)
C10_UpdateWritesOnlyItsTarget ==
    [][\A t \in Threads :
        (/\ update_overlay_103(t)
         /\ NoRepeat(assigned)
         /\ NoDupIds(_overlays)
         /\ local[t].id \notin deleted
         /\ local[t].id \in Ids(_overlays)) =>
            /\ \A i \in 1..Len(_overlays) :
                    _overlays'[i] # _overlays[i] => _overlays[i].id = local[t].id
            /\ Ids(_overlays') = Ids(_overlays)
            /\ NoDupIds(_overlays')]_vars

====
